---- MODULE Spec2Model ----
(***************************************************************************)
(* IdentityService (src/api/services/model/IdentityService.ts) of          *)
(* particl-market, as a state machine.                                     *)
(*                                                                         *)
(* The identity repository is a keyed table of identity rows, the wallet   *)
(* daemon behind CoreRpcService is a set of wallets answering the RPC      *)
(* calls, and every await of the service is one step of the call that      *)
(* issued it, so that calls running in two request slots interleave at     *)
(* their awaits exactly as the node event loop lets them.                  *)
(***************************************************************************)
EXTENDS Integers, Sequences, FiniteSets, TLC

VARIABLES
    store,      \* identityRepository: id -> identity row (DOMAIN = ids present)
    nextId,     \* the table's auto-increment key
    wallets,    \* names of the wallets that exist in the wallet daemon
    daemon,     \* how the wallet daemon words its answers (fixed for a run)
    seed,       \* the state of Math.random()
    pc,         \* per request slot: the await the running call is parked at
    loc,        \* per request slot: the running call's arguments and locals
    rpc,        \* per request slot: the coreRpcService calls the running call has issued
    res,        \* per request slot: what the last finished call returned or threw
    ops         \* number of service calls started so far

vars == <<store, nextId, wallets, daemon, seed, pc, loc, rpc, res, ops>>

---------------------------------------------------------------------------
(* Bounds of the model *)

MaxIdentities == 3      \* rows the table can ever hold (ids 1..MaxIdentities)
MaxOps == 3             \* service calls started in one behaviour
RandDen == 4            \* Math.random() takes the values k / RandDen, 0 <= k < RandDen
MaxLength == 3          \* lengths createRandom is asked for: 0..MaxLength and the default

Calls == {1, 2}         \* request slots: calls in flight at the same time
Ids == 1..MaxIdentities

---------------------------------------------------------------------------
(* Values *)

Absent == "<undefined>"             \* a field the JSON body does not carry

IdentityType_PROFILE == "PROFILE"
IdentityType_MARKET == "MARKET"

Profiles ==
    { [id |-> 1, name |-> "a"],
      [id |-> 2, name |-> "a/particl-market"] }

MasterKeyLabel == "Master Key - bip44 derived."
MarketAccountPath == "4444446'/0'"
DefaultLength == 24

capsChars(caps) ==
    IF caps THEN << "A","B","C","D","E","F","G","H","I","J","K","L","M",
                    "N","O","P","Q","R","S","T","U","V","W","X","Y","Z" >>
            ELSE << >>
lowerChars(lower) ==
    IF lower THEN << "a","b","c","d","e","f","g","h","i","j","k","l","m",
                     "n","o","p","q","r","s","t","u","v","w","x","y","z" >>
             ELSE << >>
numChars(numbers) ==
    IF numbers THEN << "0","1","2","3","4","5","6","7","8","9" >> ELSE << >>
uniqueChars(unique) ==
    IF unique THEN << "~","!","@","#","$","%","^","&","*","(",")","_","+",
                      "-","=","[","]","{","}",";",":",",",".","<",">","?" >>
              ELSE << >>
selectedChars(caps, lower, numbers, unique) ==
    capsChars(caps) \o lowerChars(lower) \o numChars(numbers) \o uniqueChars(unique)

\* Math.random(): the i-th draw of the generator in state s is
\* MathRandom(s, i) / RandDen; a call of createRandom leaves it in NextSeed(s).
MathRandom(s, i) == (i * s) % RandDen
NextSeed(s) == (s + 1) % RandDen
Seeds == {0}

RECURSIVE join(_)
join(seq) == IF seq = << >> THEN "" ELSE Head(seq) \o join(Tail(seq))

\* Mutant of pickChar: the character is drawn from all four classes.
pickChar_anyClass(chars, s, i) ==
    LET all == selectedChars(TRUE, TRUE, TRUE, TRUE)
    IN  all[((MathRandom(s, i) * Len(all)) \div RandDen) + 1]

\* selectedChars[Math.random() * selectedChars.length | 0]; an index past the
\* end of an empty array is undefined, which join('') renders as ''.
pickChar(chars, s, i) ==
    IF Len(chars) = 0 THEN ""
    ELSE chars[((MathRandom(s, i) * Len(chars)) \div RandDen) + 1]

createRandom(length, caps, lower, numbers, unique, s) ==
    LET chars == selectedChars(caps, lower, numbers, unique)
    IN  join([i \in 1..length |-> pickChar(chars, s, i)])

---------------------------------------------------------------------------
(* Identity rows, request bodies, call results *)

Row(profile_id, wallet, address, hdseedid, path, mnemonic, passphrase, type) ==
    [ profile_id |-> profile_id, wallet |-> wallet, address |-> address,
      hdseedid |-> hdseedid, path |-> path, mnemonic |-> mnemonic,
      passphrase |-> passphrase, type |-> type ]

\* IdentityUpdateRequest bodies handed to update(): two bodies that differ in
\* every field, one of each IdentityType.
UpdateRequests ==
    { [ wallet |-> "profiles/a", address |-> "addr:u1", hdseedid |-> "hdseed:u1",
        path |-> "m/0'", mnemonic |-> "mnemonic-u1", passphrase |-> "pass-u1",
        type |-> IdentityType_PROFILE ],
      [ wallet |-> "profiles/a/particl-market", address |-> "addr:u2",
        hdseedid |-> "hdseed:u2", path |-> MarketAccountPath,
        mnemonic |-> "mnemonic-u2", passphrase |-> "pass-u2",
        type |-> IdentityType_MARKET ] }

\* IdentityCreateRequest bodies handed to create() by other services.
CreateRequests ==
    { Row(1, "profiles/a/particl-market", "addr:c1", "hdseed:c1", MarketAccountPath,
          Absent, Absent, IdentityType_MARKET) }

\* Keys the lookups are called with.
LookupWallets == { "profiles/a", "profiles/a/particl-market", "profiles/none" }
LookupAddresses == { "addr:profiles/a", "addr:u1", "addr:none" }

\* What a finished call handed to its caller.
Found(id, row) == [ kind |-> "Identity", id |-> id, row |-> row ]
Null == [ kind |-> "null" ]
Void == [ kind |-> "void" ]
NoResult == [ kind |-> "none" ]
NotFoundException(key) == [ kind |-> "NotFoundException", key |-> key ]
ModelNotFoundException(what) == [ kind |-> "ModelNotFoundException", key |-> what ]
MessageException(msg) == [ kind |-> "MessageException", key |-> msg ]
TypeError == [ kind |-> "TypeError" ]
DatabaseException == [ kind |-> "DatabaseException" ]
RpcError == [ kind |-> "RpcError" ]

---------------------------------------------------------------------------
(* The wallet daemon's answers *)

\* The daemon reports a wallet under the name asked for or under its file
\* name, and a derivation path as asked for or from the root ("m/...").
DaemonModes == [ names : {"asked", "file"}, paths : {"asked", "rooted"} ]

\* RpcWallet.name answered by createAndLoadWallet(name).
RpcWalletName(name) == IF daemon.names = "asked" THEN name ELSE name \o ".dat"

RpcExtKey(type, key_type, label, current_master, evkey, path) ==
    [ type |-> type, key_type |-> key_type, label |-> label,
      current_master |-> current_master, evkey |-> evkey, path |-> path ]

MasterKeyOf(wallet) ==
    RpcExtKey("Loose", "Master", MasterKeyLabel, "true", "evkey:" \o wallet, "m/44'/44'")
AccountKeyOf(wallet) ==
    RpcExtKey("Account", "Master", MasterKeyLabel, "true", "acckey:" \o wallet, "m/0'")
OldMasterKeyOf(wallet) ==
    RpcExtKey("Loose", "Master", MasterKeyLabel, Absent, "oldkey:" \o wallet, "m/44'/44'")
ImportedKeyOf(wallet) ==
    RpcExtKey("Loose", "Master", "master key", "true", "impkey:" \o wallet, "m")

\* RpcExtKey[] answered by extKeyList(wallet, true).
ExtKeyLists(wallet) ==
    { << >>,
      << AccountKeyOf(wallet), OldMasterKeyOf(wallet), ImportedKeyOf(wallet) >>,
      << AccountKeyOf(wallet), MasterKeyOf(wallet), OldMasterKeyOf(wallet) >> }

\* key_info.path answered by extKeyInfo(wallet, key, path).
RpcKeyInfoPath(path) == IF daemon.paths = "asked" THEN path ELSE "m/" \o path

RpcAltVersion(key) == "alt:" \o key
RpcImportedId(key) == "id:" \o key
RpcAccount(wallet, label) == "account:" \o wallet \o ":" \o label
RpcAddress(wallet) == "addr:" \o wallet
RpcHdSeedId(wallet) == "hdseed:" \o wallet
\* RpcMnemonic.mnemonic answered by mnemonic(['new', passphrase, ...]): a
\* phrase of its own for every request.
RpcMnemonic(passphrase) == "mnemonic of " \o passphrase

\* Mutant of IsMasterKey: the current_master test is left out.
IsMasterKey_anyMaster(key) ==
    /\ key.type = "Loose"
    /\ key.key_type = "Master"
    /\ key.label = MasterKeyLabel

\* The predicate of _.find(extKeys, key => ...).
IsMasterKey(key) ==
    /\ key.type = "Loose"
    /\ key.key_type = "Master"
    /\ key.label = MasterKeyLabel
    /\ key.current_master = "true"

\* _.find: the first element satisfying the predicate, 0 for undefined.
FindMasterKey(extKeys) ==
    LET hits == { i \in 1..Len(extKeys) : IsMasterKey(extKeys[i]) }
    IN  IF hits = {} THEN 0 ELSE CHOOSE i \in hits : \A j \in hits : i <= j

---------------------------------------------------------------------------
(* The repository and the profile relation *)

\* Profile.Identities of profileService.findOne(profileId, true): the ids of
\* the rows that belong to the profile, in key order.
ProfileIdentities(profileId) ==
    { i \in DOMAIN store : store[i].profile_id = profileId }

\* _.find(profile.Identities, p => p.type === IdentityType.PROFILE): the id of
\* the first PROFILE row of the profile, 0 for undefined.
FindProfileType(profileId) ==
    LET hits == { i \in ProfileIdentities(profileId) :
                    store[i].type = IdentityType_PROFILE }
    IN  IF hits = {} THEN 0 ELSE CHOOSE i \in hits : \A j \in hits : i <= j

\* identityRepository.findOneByWalletName / findOneByAddress: the first row
\* carrying the key, 0 for null.
FirstId(ids) == IF ids = {} THEN 0 ELSE CHOOSE i \in ids : \A j \in ids : i <= j
IdByWalletName(wallet) == FirstId({ i \in DOMAIN store : store[i].wallet = wallet })
IdByAddress(address) == FirstId({ i \in DOMAIN store : store[i].address = address })

\* The table with a row put in / taken out.
Put(s, id, row) == [ i \in DOMAIN s \cup {id} |-> IF i = id THEN row ELSE s[i] ]
Remove(s, id) == [ i \in DOMAIN s \ {id} |-> s[i] ]

---------------------------------------------------------------------------
(* Request slots *)

\* The frame of a call: which call it is and its arguments, and the locals it
\* has assigned so far.
NoCall == [ op |-> "none" ]
With(l, locals) == locals @@ l
ArgumentNames == { "op", "profile", "id", "key", "body" }

Init ==
    /\ store = << >>
    /\ nextId = 1
    /\ wallets = {}
    /\ daemon \in DaemonModes
    /\ seed \in Seeds
    /\ pc = [ c \in Calls |-> "idle" ]
    /\ loc = [ c \in Calls |-> NoCall ]
    /\ rpc = [ c \in Calls |-> << >> ]
    /\ res = [ c \in Calls |-> NoResult ]
    /\ ops = 0

Running(c) == pc[c] \notin {"idle", "done"}

\* A new call takes the first slot whose last call has returned.
CanStart(c) ==
    /\ ~Running(c)
    /\ \A d \in Calls : d < c => Running(d)
    /\ ops < MaxOps

\* What is left of a call's frame when it has returned: which call it was.
Returned(l) == [ n \in DOMAIN l \cap ArgumentNames |-> l[n] ]

\* The call in slot c starts with locals l and parks at the await at.
Begin(c, l, at) ==
    /\ pc' = [pc EXCEPT ![c] = at]
    /\ loc' = [loc EXCEPT ![c] = l]
    /\ rpc' = [rpc EXCEPT ![c] = << >>]
    /\ res' = [res EXCEPT ![c] = NoResult]
    /\ ops' = ops + 1

\* The call in slot c starts and returns (or throws) r within the same await.
BeginEnd(c, l, r) ==
    /\ pc' = [pc EXCEPT ![c] = "done"]
    /\ loc' = [loc EXCEPT ![c] = Returned(l)]
    /\ rpc' = [rpc EXCEPT ![c] = << >>]
    /\ res' = [res EXCEPT ![c] = r]
    /\ ops' = ops + 1

\* The running call in slot c moves on to the await at with locals l.
Goto(c, l, at) ==
    /\ pc' = [pc EXCEPT ![c] = at]
    /\ loc' = [loc EXCEPT ![c] = l]
    /\ UNCHANGED <<res, ops>>

\* The running call in slot c returns (or throws) r; its frame is gone.
End(c, r) ==
    /\ pc' = [pc EXCEPT ![c] = "done"]
    /\ loc' = [loc EXCEPT ![c] = Returned(loc[c])]
    /\ res' = [res EXCEPT ![c] = r]
    /\ rpc' = [rpc EXCEPT ![c] = << >>]
    /\ UNCHANGED ops

---------------------------------------------------------------------------
(* Lookups: lines 47-72 *)

findOne(c) ==
    /\ CanStart(c)
    /\ \E id \in Ids :
         BeginEnd(c, [op |-> "findOne", id |-> id],
                  IF id \in DOMAIN store THEN Found(id, store[id])
                                         ELSE NotFoundException(id))
    /\ UNCHANGED <<store, nextId, wallets, daemon, seed>>

findOneByWalletName(c) ==
    /\ CanStart(c)
    /\ \E wallet \in LookupWallets :
         LET id == IdByWalletName(wallet)
         IN  BeginEnd(c, [op |-> "findOneByWalletName", key |-> wallet],
                      IF id # 0 THEN Found(id, store[id])
                                ELSE NotFoundException(wallet))
    /\ UNCHANGED <<store, nextId, wallets, daemon, seed>>

\* Mutant of findOneByAddress: the repository is asked by wallet name.
findOneByAddress_byWalletName(c) ==
    /\ CanStart(c)
    /\ \E address \in LookupAddresses :
         LET id == IdByWalletName(address)
         IN  BeginEnd(c, [op |-> "findOneByAddress", key |-> address],
                      IF id # 0 THEN Found(id, store[id])
                                ELSE NotFoundException(address))
    /\ UNCHANGED <<store, nextId, wallets, daemon, seed>>

findOneByAddress(c) ==
    /\ CanStart(c)
    /\ \E address \in LookupAddresses :
         LET id == IdByAddress(address)
         IN  BeginEnd(c, [op |-> "findOneByAddress", key |-> address],
                      IF id # 0 THEN Found(id, store[id])
                                ELSE NotFoundException(address))
    /\ UNCHANGED <<store, nextId, wallets, daemon, seed>>

---------------------------------------------------------------------------
(* findProfileIdentity: lines 74-84 *)

\* Mutant of FindProfileIdentity: the missing identity is reported with the
\* NotFoundException of the other lookups.
FindProfileIdentity_notFound(c, op, profile) ==
    LET id == FindProfileType(profile.id)
        l == [op |-> op, profile |-> profile, identityId |-> id]
    IN  IF id = 0
        THEN BeginEnd(c, l, NotFoundException(profile.id))
        ELSE Begin(c, l, "fpi_findOne")

\* Lines 75-82: the profile with its identities, the first PROFILE one of them.
FindProfileIdentity(c, op, profile) ==
    LET id == FindProfileType(profile.id)
        l == [op |-> op, profile |-> profile, identityId |-> id]
    IN  IF id = 0
        THEN BeginEnd(c, l, ModelNotFoundException("Identity"))
        ELSE Begin(c, l, "fpi_findOne")

findProfileIdentity(c) ==
    /\ CanStart(c)
    /\ \E profile \in Profiles : FindProfileIdentity(c, "findProfileIdentity", profile)
    /\ UNCHANGED <<store, nextId, wallets, daemon, seed>>

\* Line 83: whatever identityRepository.findOne answers, null included.
RepositoryFindOne(id) ==
    IF id \in DOMAIN store THEN Found(id, store[id]) ELSE Null

\* Line 83, and line 101 for the call made by createMarketIdentityForProfile:
\* value.toJSON() of a null value is a TypeError.
fpi_findOne(c) ==
    /\ pc[c] = "fpi_findOne"
    /\ LET value == RepositoryFindOne(loc[c].identityId)
       IN  IF loc[c].op = "findProfileIdentity"
           THEN /\ End(c, value)
           ELSE IF value.kind = "null"
                THEN /\ End(c, TypeError)
                ELSE /\ Goto(c, With(loc[c], [profileIdentity |-> value.row]),
                             "cm_extKeyList")
                     /\ UNCHANGED rpc
    /\ UNCHANGED <<store, nextId, wallets, daemon, seed>>

---------------------------------------------------------------------------
(* create: lines 86-91 *)

\* JSON.parse(JSON.stringify(data)) keeps the fields that are set, and
\* identityRepository.create stores them under the next key.
Create(c, data) ==
    /\ nextId <= MaxIdentities
    /\ store' = Put(store, nextId, data)
    /\ nextId' = nextId + 1

create(c) ==
    /\ CanStart(c)
    /\ \E data \in CreateRequests :
         /\ Create(c, data)
         /\ BeginEnd(c, [op |-> "create"],
                     Found(nextId, data))
    /\ UNCHANGED <<wallets, daemon, seed>>

---------------------------------------------------------------------------
(* coreRpcService calls *)

Request(method, wallet, arg) == [ method |-> method, wallet |-> wallet, arg |-> arg ]

\* The call the slot's await is waiting for, with the arguments it was given.
RpcRequest(c) ==
    LET l == loc[c]
    IN  CASE pc[c] = "cp_createAndLoadWallet" ->
               Request("createAndLoadWallet", l.walletName, Absent)
          [] pc[c] = "cp_mnemonic" ->
               Request("mnemonic", Absent, l.passphrase)
          [] pc[c] = "cp_extKeyGenesisImport" ->
               Request("extKeyGenesisImport", l.wallet, <<l.mnemonic, l.passphrase>>)
          [] pc[c] = "cp_extKeyList" ->
               Request("extKeyList", l.wallet, Absent)
          [] pc[c] = "cp_getNewAddress" ->
               Request("getNewAddress", l.wallet, Absent)
          [] pc[c] = "cp_getWalletInfo" ->
               Request("getWalletInfo", l.walletName, Absent)
          [] pc[c] = "cm_extKeyList" ->
               Request("extKeyList", l.profileIdentity.wallet, Absent)
          [] pc[c] = "cm_extKeyInfo" ->
               Request("extKeyInfo", l.profileIdentity.wallet,
                       <<l.masterKey.evkey, MarketAccountPath>>)
          [] pc[c] = "cm_createAndLoadWallet" ->
               Request("createAndLoadWallet", l.walletName, Absent)
          [] pc[c] = "cm_extKeyAltVersion" ->
               Request("extKeyAltVersion", Absent, l.masterKey.evkey)
          [] pc[c] = "cm_extKeyImport" ->
               Request("extKeyImport", l.wallet, l.masterKey.evkey)
          [] pc[c] = "cm_extKeySetMaster" ->
               Request("extKeySetMaster", l.wallet, l.extKeyImported)
          [] pc[c] = "cm_extKeyDeriveAccount" ->
               Request("extKeyDeriveAccount", l.wallet, "market account")
          [] pc[c] = "cm_extKeySetDefaultAccount" ->
               Request("extKeySetDefaultAccount", l.wallet, l.marketAccount)
          [] pc[c] = "cm_getNewAddress" ->
               Request("getNewAddress", l.wallet, Absent)
          [] pc[c] = "cm_getWalletInfo" ->
               Request("getWalletInfo", l.wallet, Absent)

RpcPcs ==
    { "cp_createAndLoadWallet", "cp_mnemonic", "cp_extKeyGenesisImport",
      "cp_extKeyList", "cp_getNewAddress", "cp_getWalletInfo",
      "cm_extKeyList", "cm_extKeyInfo", "cm_createAndLoadWallet",
      "cm_extKeyAltVersion", "cm_extKeyImport", "cm_extKeySetMaster",
      "cm_extKeyDeriveAccount", "cm_extKeySetDefaultAccount",
      "cm_getNewAddress", "cm_getWalletInfo" }

\* The await's call goes out to the daemon.
Issue(c) == rpc' = [rpc EXCEPT ![c] = Append(@, RpcRequest(c))]

\* The daemon answers the await of slot c and the call runs on to the await
\* at with locals l.
Answer(c, at, l) ==
    /\ Issue(c)
    /\ Goto(c, l, at)

\* Mutant of RpcFail: the wallet the call had made is taken away again.
RpcFail_removesWallet(c) ==
    /\ pc[c] \in RpcPcs
    /\ End(c, RpcError)
    /\ wallets' = wallets \ {loc[c].walletName}
    /\ UNCHANGED <<store, nextId, daemon, seed>>

\* Any coreRpcService call can reject; the rejection leaves the call through
\* its await. A rejected createAndLoadWallet may or may not have made the wallet.
RpcFail(c) ==
    /\ pc[c] \in RpcPcs
    /\ End(c, RpcError)
    /\ \/ UNCHANGED wallets
       \/ /\ RpcRequest(c).method = "createAndLoadWallet"
          /\ RpcRequest(c).wallet \notin wallets
          /\ wallets' = wallets \cup {RpcRequest(c).wallet}
    /\ UNCHANGED <<store, nextId, daemon, seed>>

---------------------------------------------------------------------------
(* createProfileIdentity: lines 147-183 *)

\* Lines 161-166 and 104-110: the call leaves with the MessageException when
\* the list holds no master key, and runs on to the await at otherwise.
SelectMasterKey(c, at) ==
    LET i == FindMasterKey(loc[c].extKeys)
    IN  IF i = 0
        THEN End(c, MessageException("Could not find Profile wallets Master key."))
        ELSE /\ Goto(c, With(loc[c], [masterKey |-> loc[c].extKeys[i]]), at)
             /\ UNCHANGED rpc

\* Mutant of ProfileIdentityRequest: the passphrase is not handed on.
ProfileIdentityRequest_noPassphrase(l) ==
    Row(l.profile.id, l.wallet, l.address, l.hdseedid, l.masterKey.path,
        l.mnemonic, Absent, IdentityType_PROFILE)

\* Lines 173-182: the body handed to create().
ProfileIdentityRequest(l) ==
    Row(l.profile.id, l.wallet, l.address, l.hdseedid, l.masterKey.path,
        l.mnemonic, l.passphrase, IdentityType_PROFILE)

createProfileIdentity(c) ==
    /\ CanStart(c)
    /\ \E profile \in Profiles :
         Begin(c, [op |-> "createProfileIdentity", profile |-> profile,
                   walletName |-> "profiles/" \o profile.name],
               "cp_createAndLoadWallet")
    /\ UNCHANGED <<store, nextId, wallets, daemon, seed>>

\* Lines 151-154.
cp_createAndLoadWallet(c) ==
    /\ pc[c] = "cp_createAndLoadWallet"
    /\ Answer(c, "cp_mnemonic",
              With(loc[c],
                   [wallet |-> RpcWalletName(RpcRequest(c).wallet),
                    passphrase |-> createRandom(DefaultLength, TRUE, TRUE, TRUE, TRUE,
                                                seed)]))
    /\ seed' = NextSeed(seed)
    /\ wallets' = wallets \cup {RpcRequest(c).wallet}
    /\ UNCHANGED <<store, nextId, daemon>>

\* Mutant of cp_mnemonic: the call runs on to extKeyList without the import.
cp_mnemonic_skipsImport(c) ==
    /\ pc[c] = "cp_mnemonic"
    /\ Answer(c, "cp_extKeyList",
              With(loc[c], [mnemonic |-> RpcMnemonic(RpcRequest(c).arg)]))
    /\ UNCHANGED <<store, nextId, wallets, daemon, seed>>

\* Line 155.
cp_mnemonic(c) ==
    /\ pc[c] = "cp_mnemonic"
    /\ Answer(c, "cp_extKeyGenesisImport",
              With(loc[c], [mnemonic |-> RpcMnemonic(RpcRequest(c).arg)]))
    /\ UNCHANGED <<store, nextId, wallets, daemon, seed>>

\* Line 158.
cp_extKeyGenesisImport(c) ==
    /\ pc[c] = "cp_extKeyGenesisImport"
    /\ Answer(c, "cp_extKeyList", loc[c])
    /\ UNCHANGED <<store, nextId, wallets, daemon, seed>>

\* Line 160: the daemon's answer arrives.
cp_extKeyList(c) ==
    /\ pc[c] = "cp_extKeyList"
    /\ \E extKeys \in ExtKeyLists(RpcRequest(c).wallet) :
         Answer(c, "cp_masterKey", With(loc[c], [extKeys |-> extKeys]))
    /\ UNCHANGED <<store, nextId, wallets, daemon, seed>>

\* Lines 161-166: the continuation of that await.
cp_masterKey(c) ==
    /\ pc[c] = "cp_masterKey"
    /\ SelectMasterKey(c, "cp_getNewAddress")
    /\ UNCHANGED <<store, nextId, wallets, daemon, seed>>

\* Mutant of cp_getNewAddress: the wallet is read from what another call in
\* flight has set, as if it were kept in a field of the service.
cp_getNewAddress_sharedWallet(c) ==
    /\ pc[c] = "cp_getNewAddress"
    /\ LET others == { d \in Calls \ {c} : "wallet" \in DOMAIN loc[d] }
           wallet == IF others = {} THEN loc[c].wallet
                     ELSE loc[CHOOSE d \in others : TRUE].wallet
       IN  Answer(c, "cp_getWalletInfo",
                  With(loc[c], [address |-> RpcAddress(wallet)]))
    /\ UNCHANGED <<store, nextId, wallets, daemon, seed>>

\* Line 169.
cp_getNewAddress(c) ==
    /\ pc[c] = "cp_getNewAddress"
    /\ Answer(c, "cp_getWalletInfo",
              With(loc[c], [address |-> RpcAddress(RpcRequest(c).wallet)]))
    /\ UNCHANGED <<store, nextId, wallets, daemon, seed>>

\* Line 170.
cp_getWalletInfo(c) ==
    /\ pc[c] = "cp_getWalletInfo"
    /\ Answer(c, "cp_create",
              With(loc[c], [hdseedid |-> RpcHdSeedId(RpcRequest(c).wallet)]))
    /\ UNCHANGED <<store, nextId, wallets, daemon, seed>>

\* Lines 173-182.
cp_create(c) ==
    /\ pc[c] = "cp_create"
    /\ Create(c, ProfileIdentityRequest(loc[c]))
    /\ End(c, Found(nextId, ProfileIdentityRequest(loc[c])))
    /\ UNCHANGED <<wallets, daemon, seed>>

---------------------------------------------------------------------------
(* createMarketIdentityForProfile: lines 98-137 *)

\* Mutant of MarketIdentityRequest: the path is the master key's, as in
\* createProfileIdentity.
MarketIdentityRequest_masterKeyPath(l) ==
    Row(l.profile.id, l.wallet, l.address, l.hdseedid, l.masterKey.path,
        Absent, Absent, IdentityType_MARKET)

\* Lines 129-136: the body handed to create(); mnemonic and passphrase are
\* not among its fields.
MarketIdentityRequest(l) ==
    Row(l.profile.id, l.wallet, l.address, l.hdseedid, l.keyInfoPath,
        Absent, Absent, IdentityType_MARKET)

\* Line 101, up to the first await of findProfileIdentity.
createMarketIdentityForProfile(c) ==
    /\ CanStart(c)
    /\ \E profile \in Profiles :
         FindProfileIdentity(c, "createMarketIdentityForProfile", profile)
    /\ UNCHANGED <<store, nextId, wallets, daemon, seed>>

\* Line 103: the daemon's answer arrives.
cm_extKeyList(c) ==
    /\ pc[c] = "cm_extKeyList"
    /\ \E extKeys \in ExtKeyLists(RpcRequest(c).wallet) :
         Answer(c, "cm_masterKey", With(loc[c], [extKeys |-> extKeys]))
    /\ UNCHANGED <<store, nextId, wallets, daemon, seed>>

\* Mutant of cm_masterKey: the market wallet is made before extKeyInfo is asked.
cm_masterKey_makesWallet(c) ==
    /\ pc[c] = "cm_masterKey"
    /\ SelectMasterKey(c, "cm_extKeyInfo")
    /\ wallets' = wallets \cup {"profiles/" \o loc[c].profile.name \o "/particl-market"}
    /\ UNCHANGED <<store, nextId, daemon, seed>>

\* Lines 104-110: the continuation of that await.
cm_masterKey(c) ==
    /\ pc[c] = "cm_masterKey"
    /\ SelectMasterKey(c, "cm_extKeyInfo")
    /\ UNCHANGED <<store, nextId, wallets, daemon, seed>>

\* Lines 112-115.
cm_extKeyInfo(c) ==
    /\ pc[c] = "cm_extKeyInfo"
    /\ Answer(c, "cm_createAndLoadWallet",
              With(loc[c],
                   [keyInfoPath |-> RpcKeyInfoPath(RpcRequest(c).arg[2]),
                    walletName |-> "profiles/" \o loc[c].profile.name
                                     \o "/particl-market"]))
    /\ UNCHANGED <<store, nextId, wallets, daemon, seed>>

\* Line 116.
cm_createAndLoadWallet(c) ==
    /\ pc[c] = "cm_createAndLoadWallet"
    /\ Answer(c, "cm_extKeyAltVersion",
              With(loc[c], [wallet |-> RpcWalletName(RpcRequest(c).wallet)]))
    /\ wallets' = wallets \cup {RpcRequest(c).wallet}
    /\ UNCHANGED <<store, nextId, daemon, seed>>

\* Line 119.
cm_extKeyAltVersion(c) ==
    /\ pc[c] = "cm_extKeyAltVersion"
    /\ Answer(c, "cm_extKeyImport",
              With(loc[c], [extKeyAlt |-> RpcAltVersion(RpcRequest(c).arg)]))
    /\ UNCHANGED <<store, nextId, wallets, daemon, seed>>

\* Line 120.
cm_extKeyImport(c) ==
    /\ pc[c] = "cm_extKeyImport"
    /\ Answer(c, "cm_extKeySetMaster",
              With(loc[c], [extKeyImported |-> RpcImportedId(RpcRequest(c).arg)]))
    /\ UNCHANGED <<store, nextId, wallets, daemon, seed>>

\* Line 121.
cm_extKeySetMaster(c) ==
    /\ pc[c] = "cm_extKeySetMaster"
    /\ Answer(c, "cm_extKeyDeriveAccount", loc[c])
    /\ UNCHANGED <<store, nextId, wallets, daemon, seed>>

\* Line 122.
cm_extKeyDeriveAccount(c) ==
    /\ pc[c] = "cm_extKeyDeriveAccount"
    /\ Answer(c, "cm_extKeySetDefaultAccount",
              With(loc[c], [marketAccount |->
                              RpcAccount(RpcRequest(c).wallet, RpcRequest(c).arg)]))
    /\ UNCHANGED <<store, nextId, wallets, daemon, seed>>

\* Line 123.
cm_extKeySetDefaultAccount(c) ==
    /\ pc[c] = "cm_extKeySetDefaultAccount"
    /\ Answer(c, "cm_getNewAddress", loc[c])
    /\ UNCHANGED <<store, nextId, wallets, daemon, seed>>

\* Line 125.
cm_getNewAddress(c) ==
    /\ pc[c] = "cm_getNewAddress"
    /\ Answer(c, "cm_getWalletInfo",
              With(loc[c], [address |-> RpcAddress(RpcRequest(c).wallet)]))
    /\ UNCHANGED <<store, nextId, wallets, daemon, seed>>

\* Line 126.
cm_getWalletInfo(c) ==
    /\ pc[c] = "cm_getWalletInfo"
    /\ Answer(c, "cm_create",
              With(loc[c], [hdseedid |-> RpcHdSeedId(RpcRequest(c).wallet)]))
    /\ UNCHANGED <<store, nextId, wallets, daemon, seed>>

\* Lines 129-136.
cm_create(c) ==
    /\ pc[c] = "cm_create"
    /\ Create(c, MarketIdentityRequest(loc[c]))
    /\ End(c, Found(nextId, MarketIdentityRequest(loc[c])))
    /\ UNCHANGED <<wallets, daemon, seed>>

---------------------------------------------------------------------------
(* update and destroy: lines 186-204 *)

\* Mutant of UpdatedIdentity: the address is left as it was loaded.
UpdatedIdentity_keepsAddress(identity, body) ==
    [identity EXCEPT !.wallet = body.wallet,
                     !.hdseedid = body.hdseedid,
                     !.path = body.hdseedid,
                     !.mnemonic = body.mnemonic,
                     !.passphrase = body.passphrase,
                     !.type = body.type]

\* Lines 190-196: the loaded row with the body's fields written over it.
UpdatedIdentity(identity, body) ==
    [identity EXCEPT !.wallet = body.wallet,
                     !.address = body.address,
                     !.hdseedid = body.hdseedid,
                     !.path = body.hdseedid,
                     !.mnemonic = body.mnemonic,
                     !.passphrase = body.passphrase,
                     !.type = body.type]

\* Line 189: findOne(id, false), which throws for a missing id.
update(c) ==
    /\ CanStart(c)
    /\ \E id \in Ids, body \in UpdateRequests :
         LET l == [op |-> "update", id |-> id, body |-> body]
         IN  IF id \in DOMAIN store
             THEN Begin(c, With(l, [identity |-> store[id]]), "update_repository")
             ELSE BeginEnd(c, l, NotFoundException(id))
    /\ UNCHANGED <<store, nextId, wallets, daemon, seed>>

\* Lines 190-199: identityRepository.update writes the whole row under the id;
\* a row deleted in the meantime cannot be updated.
update_repository(c) ==
    /\ pc[c] = "update_repository"
    /\ LET row == UpdatedIdentity(loc[c].identity, loc[c].body)
       IN  IF loc[c].id \in DOMAIN store
           THEN /\ store' = Put(store, loc[c].id, row)
                /\ End(c, Found(loc[c].id, row))
           ELSE /\ UNCHANGED store
                /\ End(c, DatabaseException)
    /\ UNCHANGED <<nextId, wallets, daemon, seed>>

\* Mutant of destroy: the wallet of the row is dropped with the row.
destroy_cascades(c) ==
    /\ CanStart(c)
    /\ \E id \in Ids :
         /\ store' = Remove(store, id)
         /\ wallets' = IF id \in DOMAIN store THEN wallets \ {store[id].wallet}
                                               ELSE wallets
         /\ BeginEnd(c, [op |-> "destroy", id |-> id], Void)
    /\ UNCHANGED <<nextId, daemon, seed>>

\* Lines 202-204: identityRepository.destroy(id); deleting a missing row is
\* the repository's business (nothing happens, or it rejects).
destroy(c) ==
    /\ CanStart(c)
    /\ \E id \in Ids :
         /\ store' = Remove(store, id)
         /\ \/ BeginEnd(c, [op |-> "destroy", id |-> id], Void)
            \/ /\ id \notin DOMAIN store
               /\ BeginEnd(c, [op |-> "destroy", id |-> id],
                           DatabaseException)
    /\ UNCHANGED <<nextId, wallets, daemon, seed>>

---------------------------------------------------------------------------

Next ==
    \E c \in Calls :
        \/ findOne(c)
        \/ findOneByWalletName(c)
        \/ findOneByAddress(c)
        \/ findProfileIdentity(c)
        \/ fpi_findOne(c)
        \/ create(c)
        \/ createProfileIdentity(c)
        \/ cp_createAndLoadWallet(c)
        \/ cp_mnemonic(c)
        \/ cp_extKeyGenesisImport(c)
        \/ cp_extKeyList(c)
        \/ cp_masterKey(c)
        \/ cp_getNewAddress(c)
        \/ cp_getWalletInfo(c)
        \/ cp_create(c)
        \/ createMarketIdentityForProfile(c)
        \/ cm_extKeyList(c)
        \/ cm_masterKey(c)
        \/ cm_extKeyInfo(c)
        \/ cm_createAndLoadWallet(c)
        \/ cm_extKeyAltVersion(c)
        \/ cm_extKeyImport(c)
        \/ cm_extKeySetMaster(c)
        \/ cm_extKeyDeriveAccount(c)
        \/ cm_extKeySetDefaultAccount(c)
        \/ cm_getNewAddress(c)
        \/ cm_getWalletInfo(c)
        \/ cm_create(c)
        \/ update(c)
        \/ update_repository(c)
        \/ destroy(c)
        \/ RpcFail(c)

Spec == Init /\ [][Next]_vars

\* The service when its callers use createProfileIdentity,
\* createMarketIdentityForProfile, update and destroy only.
NextProvisioning ==
    \E c \in Calls :
        \/ fpi_findOne(c)
        \/ createProfileIdentity(c)
        \/ cp_createAndLoadWallet(c)
        \/ cp_mnemonic(c)
        \/ cp_extKeyGenesisImport(c)
        \/ cp_extKeyList(c)
        \/ cp_masterKey(c)
        \/ cp_getNewAddress(c)
        \/ cp_getWalletInfo(c)
        \/ cp_create(c)
        \/ createMarketIdentityForProfile(c)
        \/ cm_extKeyList(c)
        \/ cm_masterKey(c)
        \/ cm_extKeyInfo(c)
        \/ cm_createAndLoadWallet(c)
        \/ cm_extKeyAltVersion(c)
        \/ cm_extKeyImport(c)
        \/ cm_extKeySetMaster(c)
        \/ cm_extKeyDeriveAccount(c)
        \/ cm_extKeySetDefaultAccount(c)
        \/ cm_getNewAddress(c)
        \/ cm_getWalletInfo(c)
        \/ cm_create(c)
        \/ update(c)
        \/ update_repository(c)
        \/ destroy(c)
        \/ RpcFail(c)

SpecProvisioning == Init /\ [][NextProvisioning]_vars

---------------------------------------------------------------------------
(* createRandom on its own: lines 209-219 *)

Lengths == (0..MaxLength) \cup {DefaultLength}
RandomSeeds == 0..(RandDen - 1)

InitRandom ==
    /\ store = << >>
    /\ nextId = 1
    /\ wallets = {}
    /\ daemon \in DaemonModes
    /\ seed \in RandomSeeds
    /\ pc = [ c \in Calls |-> "idle" ]
    /\ loc = [ c \in Calls |-> NoCall ]
    /\ rpc = [ c \in Calls |-> << >> ]
    /\ res = [ c \in Calls |-> NoResult ]
    /\ ops = 0

\* createRandom(length, caps, lower, numbers, unique) called with any length
\* and any flags, in any state of Math.random().
callCreateRandom(c) ==
    /\ CanStart(c)
    /\ \E length \in Lengths, caps, lower, numbers, unique \in BOOLEAN :
         BeginEnd(c, [op |-> "createRandom",
                      body |-> [length |-> length, caps |-> caps, lower |-> lower,
                                numbers |-> numbers, unique |-> unique]],
                  [kind |-> "string",
                   value |-> createRandom(length, caps, lower, numbers, unique, seed)])
    /\ seed' = NextSeed(seed)
    /\ UNCHANGED <<store, nextId, wallets, daemon>>

NextRandom == \E c \in Calls : callCreateRandom(c)

SpecRandom == InitRandom /\ [][NextRandom]_vars

---------------------------------------------------------------------------
(* Properties *)

\* The slot whose call starts in this step: only the first free slot can.
StartedBy(c) == CanStart(c) /\ ops' = ops + 1

\* The requests of the running call of slot c that went to the given method.
Issued(c, method) == SelectSeq(rpc[c], LAMBDA r : r.method = method)

\* A key with type Loose, key type Master, the bip44 label and current-master
\* true is in the list.
ListsMasterKey(extKeys) ==
    \E i \in 1..Len(extKeys) :
        /\ extKeys[i].type = "Loose"
        /\ extKeys[i].key_type = "Master"
        /\ extKeys[i].label = "Master Key - bip44 derived."
        /\ extKeys[i].current_master = "true"

\* C1: in createProfileIdentity and in createMarketIdentityForProfile, when
\* the list answered by extKeyList holds no key with type Loose, key type
\* Master, label "Master Key - bip44 derived." and current_master true, the
\* call ends with the MessageException and the table is as it was.
C1_NoMasterKeyFails ==
    [][ \A c \in Calls :
          ( /\ pc[c] \in {"cp_masterKey", "cm_masterKey"}
            /\ pc'[c] # pc[c]
            /\ ~ListsMasterKey(loc[c].extKeys) )
          => ( /\ pc'[c] = "done"
               /\ res'[c].kind = "MessageException"
               /\ store' = store
               /\ nextId' = nextId ) ]_vars

\* Both routines have failed that way, side by side, on a list that is not
\* empty for one of them.
C1_Witness ==
    \E c, d \in Calls :
        /\ pc[c] = "done" /\ pc[d] = "done"
        /\ loc[c].op = "createProfileIdentity"
        /\ loc[d].op = "createMarketIdentityForProfile"
        /\ res[c].kind = "MessageException"
        /\ res[d].kind = "MessageException"

\* C2: for every existing id and every body, after update(id, body) has
\* returned, findOne(id) returns a row whose wallet, address, hdseedid, path,
\* mnemonic, passphrase and type are the body's.
C2_UpdateWritesEveryField ==
    [][ \A c \in Calls :
          ( /\ pc[c] = "update_repository"
            /\ pc'[c] = "done"
            /\ res'[c].kind = "Identity" )
          => LET row == store'[loc[c].id]
                 body == loc[c].body
             IN  /\ row.wallet = body.wallet
                 /\ row.address = body.address
                 /\ row.hdseedid = body.hdseedid
                 /\ row.path = body.path
                 /\ row.mnemonic = body.mnemonic
                 /\ row.passphrase = body.passphrase
                 /\ row.type = body.type ]_vars

\* C3: whatever createProfileIdentity, createMarketIdentityForProfile, update
\* and destroy calls have run, no profile has more than one row of type
\* PROFILE.
C3_OneProfileIdentityPerProfile ==
    \A profile \in Profiles :
        Cardinality({ i \in ProfileIdentities(profile.id) :
                        store[i].type = IdentityType_PROFILE }) <= 1

\* C4: whatever provisioning calls have run for whatever profiles, no two
\* rows of the table carry the same wallet name.
C4_WalletNameUnique ==
    \A i, j \in DOMAIN store : i # j => store[i].wallet # store[j].wallet

\* C5: every row has its mnemonic and its passphrase set if and only if its
\* type is PROFILE.
C5_MnemonicIffProfile ==
    \A i \in DOMAIN store :
        /\ (store[i].mnemonic # Absent) <=> (store[i].type = IdentityType_PROFILE)
        /\ (store[i].passphrase # Absent) <=> (store[i].type = IdentityType_PROFILE)

\* C6 as amended: every createMarketIdentityForProfile that returns has stored
\* one new row of type MARKET, without mnemonic and without passphrase, whose
\* path is the path the daemon reported for the one extKeyInfo request of the
\* call, which asked for the sub-path "4444446'/0'".
C6_MarketRowCarriesReportedPath ==
    [][ \A c \in Calls :
          (pc[c] = "cm_create" /\ pc'[c] = "done")
          => LET row == store'[nextId]
                 sent == Issued(c, "extKeyInfo")
             IN  /\ nextId \notin DOMAIN store
                 /\ DOMAIN store' = DOMAIN store \cup {nextId}
                 /\ row.type = IdentityType_MARKET
                 /\ row.mnemonic = Absent
                 /\ row.passphrase = Absent
                 /\ Len(sent) = 1
                 /\ sent[1].arg[2] = "4444446'/0'"
                 /\ row.path = RpcKeyInfoPath(sent[1].arg[2]) ]_vars

\* C6 as claimed: the stored path is the sub-path that was passed to
\* extKeyInfo.
C6_MarketRowCarriesSubPath ==
    [][ \A c \in Calls :
          (pc[c] = "cm_create" /\ pc'[c] = "done")
          => LET row == store'[nextId]
                 sent == Issued(c, "extKeyInfo")
             IN  /\ row.type = IdentityType_MARKET
                 /\ row.mnemonic = Absent
                 /\ row.passphrase = Absent
                 /\ Len(sent) = 1
                 /\ row.path = sent[1].arg[2] ]_vars

\* A market identity has been stored whose path is not the sub-path asked for.
C6_Witness ==
    \E c \in Calls :
        /\ pc[c] = "done"
        /\ loc[c].op = "createMarketIdentityForProfile"
        /\ res[c].kind = "Identity"
        /\ res[c].row.type = IdentityType_MARKET
        /\ res[c].row.path # MarketAccountPath

\* C7: every createProfileIdentity that returns has stored one new row of
\* type PROFILE with a mnemonic and a passphrase that are not empty, the
\* passphrase being the one sent to mnemonic and to extKeyGenesisImport, with
\* the profile's id and with the name of the wallet made for
\* "profiles/<profile name>".
C7_ProfileRow ==
    [][ \A c \in Calls :
          (pc[c] = "cp_create" /\ pc'[c] = "done")
          => LET row == store'[nextId]
                 mnemonicSent == Issued(c, "mnemonic")
                 importSent == Issued(c, "extKeyGenesisImport")
             IN  /\ nextId \notin DOMAIN store
                 /\ DOMAIN store' = DOMAIN store \cup {nextId}
                 /\ row.type = IdentityType_PROFILE
                 /\ row.mnemonic \notin {Absent, ""}
                 /\ row.passphrase \notin {Absent, ""}
                 /\ Len(mnemonicSent) = 1 /\ Len(importSent) = 1
                 /\ mnemonicSent[1].arg = row.passphrase
                 /\ importSent[1].arg = <<row.mnemonic, row.passphrase>>
                 /\ row.profile_id = loc[c].profile.id
                 /\ row.wallet = RpcWalletName("profiles/" \o loc[c].profile.name) ]_vars

\* createProfileIdentity has returned the row it stored.
C7_Witness ==
    \E c \in Calls :
        /\ pc[c] = "done"
        /\ loc[c].op = "createProfileIdentity"
        /\ res[c].kind = "Identity"
        /\ res[c].id \in DOMAIN store
        /\ store[res[c].id] = res[c].row

\* C8: findProfileIdentity returns the PROFILE identity it found for the
\* profile and no other value; when that identity is destroyed between the
\* profile lookup and the repository lookup, the call fails and does not
\* return an absent record.
C8_ReturnsIdentityOrFails ==
    [][ \A c \in Calls :
          ( /\ pc[c] = "fpi_findOne"
            /\ loc[c].op = "findProfileIdentity"
            /\ pc'[c] = "done" )
          => \/ /\ res'[c].kind = "Identity"
                /\ res'[c].id = loc[c].identityId
             \/ res'[c].kind \in {"NotFoundException", "ModelNotFoundException"} ]_vars

\* C9: findProfileIdentity for a profile that has no row of type PROFILE (no
\* row at all, or MARKET rows only) fails with the ModelNotFoundException,
\* which is not the NotFoundException of findOne, and leaves the table alone.
C9_RoleNotFound ==
    [][ \A c \in Calls :
          ( /\ StartedBy(c)
            /\ loc'[c].op = "findProfileIdentity"
            /\ \A i \in DOMAIN store :
                 store[i].profile_id = loc'[c].profile.id
                   => store[i].type # IdentityType_PROFILE )
          => ( /\ pc'[c] = "done"
               /\ res'[c].kind = "ModelNotFoundException"
               /\ res'[c].kind # NotFoundException(loc'[c].profile.id).kind
               /\ store' = store ) ]_vars

\* findProfileIdentity has failed that way for a profile that has identities,
\* all of them MARKET ones.
C9_Witness ==
    \E c \in Calls :
        /\ pc[c] = "done"
        /\ loc[c].op = "findProfileIdentity"
        /\ res[c].kind = "ModelNotFoundException"
        /\ ProfileIdentities(loc[c].profile.id) # {}
        /\ \A i \in ProfileIdentities(loc[c].profile.id) :
             store[i].type = IdentityType_MARKET

\* What a lookup by key answers when hits are the ids of the rows that carry
\* the key: NotFoundException with the key when there are none, one of those
\* rows otherwise, and the table as it was.
LookupAnswers(c, key, hits) ==
    /\ pc'[c] = "done"
    /\ store' = store
    /\ nextId' = nextId
    /\ IF hits = {}
       THEN res'[c] = NotFoundException(key)
       ELSE /\ res'[c].kind = "Identity"
            /\ res'[c].id \in hits
            /\ res'[c].row = store[res'[c].id]

\* C10: findOne, findOneByWalletName and findOneByAddress fail with the
\* NotFoundException carrying the key looked up when no row has the key, return
\* a row that has it otherwise, and do not change the table.
C10_Lookups ==
    [][ \A c \in Calls :
          StartedBy(c)
          => /\ loc'[c].op = "findOne"
                  => LookupAnswers(c, loc'[c].id,
                                   { i \in DOMAIN store : i = loc'[c].id })
             /\ loc'[c].op = "findOneByWalletName"
                  => LookupAnswers(c, loc'[c].key,
                                   { i \in DOMAIN store :
                                       store[i].wallet = loc'[c].key })
             /\ loc'[c].op = "findOneByAddress"
                  => LookupAnswers(c, loc'[c].key,
                                   { i \in DOMAIN store :
                                       store[i].address = loc'[c].key }) ]_vars

\* A lookup by address has returned a row that carries the address.
C10_Witness ==
    \E c \in Calls :
        /\ pc[c] = "done"
        /\ loc[c].op = "findOneByAddress"
        /\ res[c].kind = "Identity"
        /\ res[c].row.address = loc[c].key

\* C11: when a coreRpcService call of createProfileIdentity or of
\* createMarketIdentityForProfile rejects, the call ends there with that
\* error, the table is as it was, and no wallet is taken away; a call that
\* has ended issues no further request.
C11_RpcFailurePropagates ==
    [][ \A c \in Calls :
          /\ (pc[c] \in RpcPcs /\ pc'[c] = "done")
               => ( /\ res'[c] = RpcError
                    /\ store' = store
                    /\ nextId' = nextId
                    /\ wallets \subseteq wallets' )
          /\ (pc[c] = "done" /\ ~StartedBy(c))
               => ( /\ pc'[c] = "done"
                    /\ rpc'[c] = rpc[c]
                    /\ res'[c] = res[c] ) ]_vars

\* A provisioning call has ended with the RPC error, the wallet it asked for
\* exists, and no row carries that wallet.
C11_Witness ==
    \E c \in Calls :
        /\ pc[c] = "done"
        /\ loc[c].op \in {"createProfileIdentity", "createMarketIdentityForProfile"}
        /\ res[c] = RpcError
        /\ LET name == IF loc[c].op = "createProfileIdentity"
                        THEN "profiles/" \o loc[c].profile.name
                        ELSE "profiles/" \o loc[c].profile.name \o "/particl-market"
           IN  /\ name \in wallets
               /\ \A i \in DOMAIN store : store[i].wallet # RpcWalletName(name)

\* The characters createRandom may draw from for the given flags.
EnabledChars(b) ==
    { selectedChars(b.caps, b.lower, b.numbers, b.unique)[i] :
        i \in 1..Len(selectedChars(b.caps, b.lower, b.numbers, b.unique)) }

\* C12: createRandom(n, flags) returns a string of n characters, each of an
\* enabled class, and the empty string when no class is enabled.
C12_CreateRandom ==
    \A c \in Calls :
        (pc[c] = "done" /\ loc[c].op = "createRandom")
        => LET b == loc[c].body
               value == res[c].value
           IN  IF ~(b.caps \/ b.lower \/ b.numbers \/ b.unique)
               THEN value = ""
               ELSE /\ Len(value) = b.length
                    /\ \A i \in 1..Len(value) :
                         SubSeq(value, i, i) \in EnabledChars(b)

\* createRandom has returned its default, 24 characters of all four classes,
\* and not all of them the same.
C12_Witness ==
    \E c \in Calls :
        /\ pc[c] = "done"
        /\ loc[c].op = "createRandom"
        /\ loc[c].body = [length |-> DefaultLength, caps |-> TRUE, lower |-> TRUE,
                          numbers |-> TRUE, unique |-> TRUE]
        /\ Len(res[c].value) = DefaultLength
        /\ SubSeq(res[c].value, 1, 1) # SubSeq(res[c].value, 2, 2)

\* C13: the type of a row never changes while the row exists, whatever is
\* called, update included.
C13_TypeNeverChanges ==
    [][ \A i \in DOMAIN store \cap DOMAIN store' :
          store'[i].type = store[i].type ]_vars

\* The coreRpcService methods of createProfileIdentity in source order.
ProfileRpcOrder ==
    << "createAndLoadWallet", "mnemonic", "extKeyGenesisImport", "extKeyList",
       "getNewAddress", "getWalletInfo" >>

Methods(log) == [ i \in 1..Len(log) |-> log[i].method ]

\* C14: the requests a createProfileIdentity call has issued are always the
\* first ones of createAndLoadWallet, mnemonic, extKeyGenesisImport,
\* extKeyList, getNewAddress, getWalletInfo, in that order; the call writes
\* the table in one step only, after all six have been answered, adding one
\* row; it returns an identity from that step and from no other.
C14_ProfileRpcOrder ==
    [][ \A c \in Calls :
          (pc'[c] # pc[c] /\ loc'[c].op = "createProfileIdentity")
          => /\ Len(rpc'[c]) <= Len(ProfileRpcOrder)
             /\ Methods(rpc'[c]) = SubSeq(ProfileRpcOrder, 1, Len(rpc'[c]))
             /\ (pc'[c] # "done") =>
                   \/ rpc'[c] = rpc[c]
                   \/ /\ ~StartedBy(c)
                      /\ Len(rpc'[c]) = Len(rpc[c]) + 1
                      /\ SubSeq(rpc'[c], 1, Len(rpc[c])) = rpc[c]
             /\ IF ~StartedBy(c) /\ pc[c] = "cp_create"
                THEN /\ Methods(rpc[c]) = ProfileRpcOrder
                     /\ Cardinality(DOMAIN store') = Cardinality(DOMAIN store) + 1
                     /\ \A i \in DOMAIN store : store'[i] = store[i]
                     /\ res'[c].kind = "Identity"
                ELSE /\ store' = store
                     /\ res'[c].kind # "Identity" ]_vars

\* A createProfileIdentity call is about to write, with all six requests
\* answered.
C14_Witness ==
    \E c \in Calls :
        /\ pc[c] = "cp_create"
        /\ Methods(rpc[c]) = ProfileRpcOrder

\* C15: createMarketIdentityForProfile hands extKeyImport the key that
\* extKeyAltVersion answered for the master key, and hands extKeySetMaster
\* the id that extKeyImport answered.
C15_ImportsAlternateKey ==
    [][ \A c \in Calls :
          /\ (pc[c] = "cm_extKeyImport" /\ pc'[c] = "cm_extKeySetMaster")
               => /\ loc[c].extKeyAlt = RpcAltVersion(loc[c].masterKey.evkey)
                  /\ rpc'[c][Len(rpc'[c])].method = "extKeyImport"
                  /\ rpc'[c][Len(rpc'[c])].arg = loc[c].extKeyAlt
          /\ (pc[c] = "cm_extKeySetMaster" /\ pc'[c] = "cm_extKeyDeriveAccount")
               => /\ rpc'[c][Len(rpc'[c])].method = "extKeySetMaster"
                  /\ rpc'[c][Len(rpc'[c])].arg = loc[c].extKeyImported ]_vars

\* C16: a createMarketIdentityForProfile call changes the set of wallets in
\* the createAndLoadWallet step only, which comes after the identity found
\* as the profile's PROFILE one was loaded, the master key selected and
\* extKeyInfo answered; a call that
\* ends before that step (no PROFILE identity, no master key, extKeyInfo
\* rejected) has failed, with the wallets and the table as they were.
C16_WalletAfterKeyInfo ==
    [][ \A c \in Calls :
          (pc'[c] # pc[c] /\ loc'[c].op = "createMarketIdentityForProfile")
          => /\ (StartedBy(c) \/ pc[c] # "cm_createAndLoadWallet")
                  => wallets' = wallets
             /\ (~StartedBy(c) /\ pc[c] = "cm_createAndLoadWallet")
                  => /\ "profileIdentity" \in DOMAIN loc[c]
                     /\ loc[c].profileIdentity.profile_id = loc[c].profile.id
                     /\ IsMasterKey(loc[c].masterKey)
                     /\ Methods(rpc[c]) = << "extKeyList", "extKeyInfo" >>
             /\ ( /\ pc'[c] = "done"
                  /\ \/ StartedBy(c)
                     \/ pc[c] \in {"fpi_findOne", "cm_extKeyList", "cm_masterKey",
                                   "cm_extKeyInfo"} )
                  => /\ res'[c].kind \in {"ModelNotFoundException", "TypeError",
                                          "MessageException", "RpcError"}
                     /\ StartedBy(c) => res'[c].kind = "ModelNotFoundException"
                     /\ pc[c] = "cm_masterKey" => res'[c].kind = "MessageException"
                     /\ wallets' = wallets
                     /\ store' = store
                     /\ nextId' = nextId ]_vars

\* createMarketIdentityForProfile has failed on a rejected extKeyInfo and the
\* market wallet of the profile does not exist.
C16_Witness ==
    \E c \in Calls :
        /\ pc[c] = "done"
        /\ loc[c].op = "createMarketIdentityForProfile"
        /\ res[c] = RpcError
        /\ ("profiles/" \o loc[c].profile.name \o "/particl-market") \notin wallets
        /\ \E i \in DOMAIN store :
             /\ store[i].profile_id = loc[c].profile.id
             /\ store[i].type = IdentityType_PROFILE

\* The fields of a row that update writes, and the values a request carries.
MutableFields ==
    { "wallet", "address", "hdseedid", "path", "mnemonic", "passphrase", "type" }
RequestValues(body) == { body[f] : f \in DOMAIN body }

\* C17: whenever an update writes a row, every mutable field of the row
\* written is a value of that update's own request, the fields other than
\* the path being the request's fields of the same name, and none is a value
\* of a different request of another update of the same id; the row left by
\* two overlapping updates is the row of the one that wrote last.
C17_UpdateWritesOneRequest ==
    [][ \A c \in Calls :
          (pc[c] = "update_repository" /\ pc'[c] = "done" /\ res'[c].kind = "Identity")
          => LET row == store'[loc[c].id]
                 body == loc[c].body
             IN  /\ \A f \in MutableFields \ {"path"} : row[f] = body[f]
                 /\ row.path \in RequestValues(body)
                 /\ row.profile_id = store[loc[c].id].profile_id
                 /\ \A d \in Calls \ {c} :
                      ( /\ loc[d].op = "update"
                        /\ loc[d].id = loc[c].id
                        /\ loc[d].body # body )
                      => \A f \in MutableFields :
                           row[f] \notin RequestValues(loc[d].body) ]_vars

\* An update has written its row, all of it, while another update of the
\* same id with another request had loaded the row and not yet written.
C17_Witness ==
    /\ pc[1] = "done" /\ pc[2] = "update_repository"
    /\ loc[1].op = "update" /\ loc[2].op = "update"
    /\ loc[1].id = loc[2].id
    /\ loc[1].body # loc[2].body
    /\ res[1].kind = "Identity"
    /\ store[loc[1].id] = res[1].row
    /\ loc[2].identity # store[loc[2].id]

\* C18: destroy(id) takes the row of that id out of the table and changes
\* nothing else: it issues no coreRpcService call, the wallets are as they
\* were, the wallet of the row included, and every other row is as it was.
C18_DestroyFrame ==
    [][ \A c \in Calls :
          (StartedBy(c) /\ loc'[c].op = "destroy")
          => /\ pc'[c] = "done"
             /\ rpc'[c] = << >>
             /\ wallets' = wallets
             /\ DOMAIN store' = DOMAIN store \ {loc'[c].id}
             /\ \A i \in DOMAIN store' : store'[i] = store[i]
             /\ nextId' = nextId ]_vars

\* destroy has removed a row that existed; a wallet is left that no row
\* carries, and another row is still there.
C18_Witness ==
    \E c \in Calls :
        /\ pc[c] = "done"
        /\ loc[c].op = "destroy"
        /\ res[c] = Void
        /\ loc[c].id < nextId
        /\ loc[c].id \notin DOMAIN store
        /\ DOMAIN store # {}
        /\ \E w \in wallets :
             \A i \in DOMAIN store : store[i].wallet # RpcWalletName(w)

\* C19: in the row stored by createProfileIdentity the address and the
\* hdseedid were asked of the wallet whose name is stored: getNewAddress and
\* getWalletInfo both went to the name createAndLoadWallet answered.
C19_RowOfOneWallet ==
    [][ \A c \in Calls :
          (pc[c] = "cp_create" /\ pc'[c] = "done")
          => LET row == store'[nextId]
             IN  /\ Issued(c, "getNewAddress")[1].wallet = row.wallet
                 /\ Issued(c, "getWalletInfo")[1].wallet = row.wallet ]_vars

\* C20: when createProfileIdentity stores its row, the row's fields are the
\* call's own (its profile, the wallet made for its profile's name, the
\* answers to its own requests), and none of wallet, address and hdseedid
\* is that of another createProfileIdentity in flight for a profile of
\* another name.
C20_ProfileCallsIsolated ==
    [][ \A c \in Calls :
          (pc[c] = "cp_create" /\ pc'[c] = "done")
          => LET row == store'[nextId]
                 own == "profiles/" \o loc[c].profile.name
             IN  /\ row.profile_id = loc[c].profile.id
                 /\ Issued(c, "createAndLoadWallet")[1].wallet = own
                 /\ row.wallet = RpcWalletName(own)
                 /\ Issued(c, "getNewAddress")[1].wallet \in {own, row.wallet}
                 /\ row.address = RpcAddress(Issued(c, "getNewAddress")[1].wallet)
                 /\ Issued(c, "getWalletInfo")[1].wallet \in {own, row.wallet}
                 /\ row.hdseedid = RpcHdSeedId(Issued(c, "getWalletInfo")[1].wallet)
                 /\ row.passphrase = Issued(c, "mnemonic")[1].arg
                 /\ row.mnemonic = RpcMnemonic(row.passphrase)
                 /\ Issued(c, "extKeyList")[1].wallet = row.wallet
                 /\ loc[c].masterKey = MasterKeyOf(row.wallet)
                 /\ row.path = loc[c].masterKey.path
                 /\ \A d \in Calls \ {c} :
                      ( /\ Running(d)
                        /\ loc[d].op = "createProfileIdentity"
                        /\ loc[d].profile.name # loc[c].profile.name )
                      => LET other == "profiles/" \o loc[d].profile.name
                             theirs == {other, RpcWalletName(other)}
                         IN  /\ row.profile_id # loc[d].profile.id
                             /\ row.wallet \notin theirs
                             /\ \A w \in theirs :
                                  /\ row.address # RpcAddress(w)
                                  /\ row.hdseedid # RpcHdSeedId(w) ]_vars

\* A createProfileIdentity has stored its row while another one, for a
\* profile of another name, was past its wallet's creation and not yet done.
C20_Witness ==
    /\ pc[1] = "done" /\ Running(2)
    /\ loc[1].op = "createProfileIdentity" /\ loc[2].op = "createProfileIdentity"
    /\ loc[1].profile.name # loc[2].profile.name
    /\ res[1].kind = "Identity"
    /\ "address" \in DOMAIN loc[2]

====
